---- MODULE Spec2Model ----
(***************************************************************************)
(* Model of the file encryption tool of src/src/main.rs: the application   *)
(* state of FileEncryptionTool, its update handler (one action per         *)
(* Message) and the two core operations encrypt_file and decrypt_file on a *)
(* file system.                                                            *)
(*                                                                         *)
(* Strings are sequences of one-character strings, byte buffers are        *)
(* sequences of integers in 0..255.  A Result<(), String> is the error     *)
(* text, or "Ok".                                                          *)
(***************************************************************************)
EXTENDS Integers, Sequences, FiniteSets, TLC

----------------------------------------------------------------------------
(* Bounds of the model.                                                    *)

\* longest path the file dialog is allowed to return
MaxPathLen == 13

\* longest plaintext of the initial source files
MaxDataLen == 17

----------------------------------------------------------------------------
(* Program constants.                                                      *)

\* Aes256: 32-byte key, 16-byte block (and IV)
KeySize == 32

BlockSize == 16

\* truncate_middle(&path, 36)
TruncateLen == 36

----------------------------------------------------------------------------
(* Strings.                                                                *)

Rep(c, n) == [i \in 1..n |-> c]

DotEnc == <<".", "e", "n", "c">>

UDecrypted == <<"_", "d", "e", "c", "r", "y", "p", "t", "e", "d">>

Dots4 == <<".", ".", ".", ".">>

\* str::ends_with
ends_with(s, suf) ==
    /\ Len(s) >= Len(suf)
    /\ SubSeq(s, Len(s) - Len(suf) + 1, Len(s)) = suf

\* str::trim_end_matches: the suffix is removed repeatedly
RECURSIVE trim_end_matches(_, _)
trim_end_matches(s, suf) ==
    IF ends_with(s, suf)
    THEN trim_end_matches(SubSeq(s, 1, Len(s) - Len(suf)), suf)
    ELSE s

\* str::rfind of a character: 0-based byte position of the last match, or
\* -1 for None
rfind(s, c) ==
    IF \E i \in 1..Len(s) : s[i] = c
    THEN (CHOOSE i \in 1..Len(s) :
              /\ s[i] = c
              /\ \A j \in (i + 1)..Len(s) : s[j] # c) - 1
    ELSE -1

\* truncate_middle
truncate_middle(s, max_length) ==
    IF Len(s) <= max_length
    THEN s
    ELSE LET half_len == max_length \div 2
         IN  SubSeq(s, 1, half_len) \o Dots4
                 \o SubSeq(s, Len(s) - half_len + 1, Len(s))

----------------------------------------------------------------------------
(* hex::decode and hex::encode.                                            *)

HexLower == <<"0", "1", "2", "3", "4", "5", "6", "7",
              "8", "9", "a", "b", "c", "d", "e", "f">>

HexUpper == <<"0", "1", "2", "3", "4", "5", "6", "7",
              "8", "9", "A", "B", "C", "D", "E", "F">>

IsHexChar(c) == \E v \in 1..16 : HexLower[v] = c \/ HexUpper[v] = c

HexVal(c) == (CHOOSE v \in 1..16 : HexLower[v] = c \/ HexUpper[v] = c) - 1

\* hex::decode: an odd length or a character outside 0-9a-fA-F is an error
decode(s) ==
    IF Len(s) % 2 # 0
    THEN [ok |-> FALSE, bytes |-> <<>>]
    ELSE IF \E i \in 1..Len(s) : ~IsHexChar(s[i])
    THEN [ok |-> FALSE, bytes |-> <<>>]
    ELSE [ok |-> TRUE,
          bytes |-> [i \in 1..(Len(s) \div 2) |->
                        HexVal(s[2 * i - 1]) * 16 + HexVal(s[2 * i])]]

\* hex::encode: two lowercase digits per byte
encode(bytes) ==
    [i \in 1..(2 * Len(bytes)) |->
        IF i % 2 = 1
        THEN HexLower[(bytes[(i + 1) \div 2] \div 16) + 1]
        ELSE HexLower[(bytes[i \div 2] % 16) + 1]]

----------------------------------------------------------------------------
(* Cbc<Aes256, Pkcs7>.  The AES block permutation is abstracted by a keyed *)
(* permutation of 16-byte blocks (rotate the block by one position and add *)
(* both key halves bytewise); the CBC chaining and the PKCS#7 padding are  *)
(* those of block-modes 0.8 / block-padding 0.2.                           *)

Bit(a, i) == (a \div (2 ^ i)) % 2

Xor(a, b) ==
    LET X(i) == IF Bit(a, i) = Bit(b, i) THEN 0 ELSE 2 ^ i
    IN  X(0) + X(1) + X(2) + X(3) + X(4) + X(5) + X(6) + X(7)

XorBlock(x, y) == [i \in 1..BlockSize |-> Xor(x[i], y[i])]

encrypt_block(key, b) ==
    [i \in 1..BlockSize |->
        (b[(i % BlockSize) + 1] + key[i] + key[i + BlockSize]) % 256]

decrypt_block(key, c) ==
    [j \in 1..BlockSize |->
        LET i == ((j + BlockSize - 2) % BlockSize) + 1
        IN  (c[i] + 512 - key[i] - key[i + BlockSize]) % 256]

\* Cbc::new_from_slices: InvalidKeyIvLength unless 32-byte key, 16-byte IV
new_from_slices(key, iv) ==
    IF Len(key) = KeySize /\ Len(iv) = BlockSize
    THEN [ok |-> TRUE, key |-> key, iv |-> iv]
    ELSE [ok |-> FALSE, key |-> <<>>, iv |-> <<>>]

\* Pkcs7::pad over the buffer extended by one block: the last, partial or
\* empty, block is filled with the count of bytes added (1..16)
Pkcs7_pad(data) ==
    LET n == BlockSize - (Len(data) % BlockSize)
    IN  data \o Rep(n, n)

\* Pkcs7::unpad of block-padding 0.2 takes the whole buffer and no block
\* size: it rejects an empty buffer, a last byte n that is 0 or exceeds
\* the buffer length, and any of the n - 1 bytes before it differing from n
Pkcs7_unpad(data) ==
    IF Len(data) = 0
    THEN [ok |-> FALSE, bytes |-> <<>>]
    ELSE LET l == Len(data)
             n == data[l]
         IN  IF n = 0 \/ n > l
             THEN [ok |-> FALSE, bytes |-> <<>>]
             ELSE IF \E i \in (l - n + 1)..(l - 1) : data[i] # n
             THEN [ok |-> FALSE, bytes |-> <<>>]
             ELSE [ok |-> TRUE, bytes |-> SubSeq(data, 1, l - n)]

NthBlock(buf, b) == SubSeq(buf, (b - 1) * BlockSize + 1, b * BlockSize)

\* Cbc::encrypt_blocks: c_b = E(p_b xor c_(b-1)), c_0 = iv
RECURSIVE encrypt_blocks(_, _, _, _)
encrypt_blocks(key, prev, buf, b) ==
    IF b * BlockSize > Len(buf)
    THEN <<>>
    ELSE LET c == encrypt_block(key, XorBlock(NthBlock(buf, b), prev))
         IN  c \o encrypt_blocks(key, c, buf, b + 1)

\* Cbc::decrypt_blocks: p_b = D(c_b) xor c_(b-1), c_0 = iv
RECURSIVE decrypt_blocks(_, _, _, _)
decrypt_blocks(key, prev, buf, b) ==
    IF b * BlockSize > Len(buf)
    THEN <<>>
    ELSE LET c == NthBlock(buf, b)
         IN  XorBlock(decrypt_block(key, c), prev)
                 \o decrypt_blocks(key, c, buf, b + 1)

\* BlockMode::encrypt_vec
encrypt_vec(cipher, plaintext) ==
    encrypt_blocks(cipher.key, cipher.iv, Pkcs7_pad(plaintext), 1)

\* BlockMode::decrypt_vec: BlockModeError when the length is no multiple of
\* the block size or the padding does not unpad
decrypt_vec(cipher, ciphertext) ==
    IF Len(ciphertext) % BlockSize # 0
    THEN [ok |-> FALSE, bytes |-> <<>>]
    ELSE Pkcs7_unpad(decrypt_blocks(cipher.key, cipher.iv, ciphertext, 1))

----------------------------------------------------------------------------
(* Status texts and error texts of main.rs.                                *)

InvalidKeyFormat == "Invalid key format"

InvalidIvFormat == "Invalid IV format"

InvalidKeyOrIvLength == "Invalid key/IV length"

FileReadError == "Failed to read file"

FileWriteErrorEnc == "Failed to write encrypted file"

FileWriteErrorDec == "Failed to write decrypted file"

DecryptionError == "Failed to decrypt file"

Ok == "Ok"

\* the handler returned before the core operation
NotCalled == "not called"

FillAllFieldsEncrypt == "Please enter all fields (file path, key, and IV)."

FillAllFieldsDecrypt == "Please enter file path, key, and IV."

----------------------------------------------------------------------------
(* The core operations.  files is the file system (a function from the     *)
(* paths of the existing files to their bytes), ro tells whether the       *)
(* directory is read-only (std::fs::write fails).  The result carries the  *)
(* Result of the call, the file system after it and the path written.      *)

Failed(e, files) == [result |-> e, fs |-> files, out |-> <<>>]

\* std::fs::write: creates the file or replaces its content
fs_write(files, path, bytes) ==
    [p \in (DOMAIN files) \cup {path} |-> IF p = path THEN bytes ELSE files[p]]

\* the decrypted file named as the file that was encrypted
decrypt_output_path_original(file_path) ==
    IF ends_with(file_path, DotEnc)
    THEN SubSeq(file_path, 1, Len(file_path) - Len(DotEnc))
    ELSE file_path \o UDecrypted

\* main.rs 257-267: the path decrypt_file writes to
decrypt_output_path(file_path) ==
    IF ends_with(file_path, DotEnc)
    THEN LET trimmed_file_path == trim_end_matches(file_path, DotEnc)
             pos == rfind(trimmed_file_path, ".")
         IN  IF pos >= 0
             THEN SubSeq(trimmed_file_path, 1, pos) \o UDecrypted
                      \o SubSeq(trimmed_file_path, pos + 1,
                                Len(trimmed_file_path))
             ELSE trimmed_file_path \o UDecrypted
    ELSE file_path \o UDecrypted

\* the ciphertext written over the source file
encrypted_file_path_in_place(file_path) == file_path

\* main.rs 243
encrypted_file_path(file_path) == file_path \o DotEnc

\* encrypt_file with the plaintext written instead of the ciphertext
encrypt_file_writes_plaintext(self, files, ro) ==
    LET key == decode(self.key)
        iv == decode(self.iv)
        cipher == new_from_slices(key.bytes, iv.bytes)
        data == files[self.file_path]
        path == encrypted_file_path(self.file_path)
    IN  IF ~key.ok THEN Failed(InvalidKeyFormat, files)
        ELSE IF ~iv.ok THEN Failed(InvalidIvFormat, files)
        ELSE IF ~cipher.ok THEN Failed(InvalidKeyOrIvLength, files)
        ELSE IF self.file_path \notin DOMAIN files
        THEN Failed(FileReadError, files)
        ELSE IF ro THEN Failed(FileWriteErrorEnc, files)
        ELSE [result |-> Ok,
              fs |-> fs_write(files, path, data),
              out |-> path]

\* encrypt_file reading the file before it builds the cipher
encrypt_file_reads_first(self, files, ro) ==
    LET key == decode(self.key)
        iv == decode(self.iv)
        cipher == new_from_slices(key.bytes, iv.bytes)
        data == files[self.file_path]
        ciphertext == encrypt_vec(cipher, data)
        path == encrypted_file_path(self.file_path)
    IN  IF ~key.ok THEN Failed(InvalidKeyFormat, files)
        ELSE IF ~iv.ok THEN Failed(InvalidIvFormat, files)
        ELSE IF self.file_path \notin DOMAIN files
        THEN Failed(FileReadError, files)
        ELSE IF ~cipher.ok THEN Failed(InvalidKeyOrIvLength, files)
        ELSE IF ro THEN Failed(FileWriteErrorEnc, files)
        ELSE [result |-> Ok,
              fs |-> fs_write(files, path, ciphertext),
              out |-> path]

encrypt_file(self, files, ro) ==
    LET key == decode(self.key)
        iv == decode(self.iv)
        cipher == new_from_slices(key.bytes, iv.bytes)
        data == files[self.file_path]
        ciphertext == encrypt_vec(cipher, data)
        path == encrypted_file_path(self.file_path)
    IN  IF ~key.ok THEN Failed(InvalidKeyFormat, files)
        ELSE IF ~iv.ok THEN Failed(InvalidIvFormat, files)
        ELSE IF ~cipher.ok THEN Failed(InvalidKeyOrIvLength, files)
        ELSE IF self.file_path \notin DOMAIN files
        THEN Failed(FileReadError, files)
        ELSE IF ro THEN Failed(FileWriteErrorEnc, files)
        ELSE [result |-> Ok,
              fs |-> fs_write(files, path, ciphertext),
              out |-> path]

\* decrypt_file with the bytes read written back instead of the plaintext
decrypt_file_writes_input(self, files, ro) ==
    LET key == decode(self.key)
        iv == decode(self.iv)
        cipher == new_from_slices(key.bytes, iv.bytes)
        encrypted_data == files[self.file_path]
        decrypted_data == decrypt_vec(cipher, encrypted_data)
        path == decrypt_output_path(self.file_path)
    IN  IF ~key.ok THEN Failed(InvalidKeyFormat, files)
        ELSE IF ~iv.ok THEN Failed(InvalidIvFormat, files)
        ELSE IF ~cipher.ok THEN Failed(InvalidKeyOrIvLength, files)
        ELSE IF self.file_path \notin DOMAIN files
        THEN Failed(FileReadError, files)
        ELSE IF ~decrypted_data.ok THEN Failed(DecryptionError, files)
        ELSE IF ro THEN Failed(FileWriteErrorDec, files)
        ELSE [result |-> Ok,
              fs |-> fs_write(files, path, encrypted_data),
              out |-> path]

\* decrypt_file reporting a cipher construction failure as a format error
decrypt_file_length_as_format(self, files, ro) ==
    LET key == decode(self.key)
        iv == decode(self.iv)
        cipher == new_from_slices(key.bytes, iv.bytes)
        encrypted_data == files[self.file_path]
        decrypted_data == decrypt_vec(cipher, encrypted_data)
        path == decrypt_output_path(self.file_path)
    IN  IF ~key.ok THEN Failed(InvalidKeyFormat, files)
        ELSE IF ~iv.ok THEN Failed(InvalidIvFormat, files)
        ELSE IF ~cipher.ok THEN Failed(InvalidKeyFormat, files)
        ELSE IF self.file_path \notin DOMAIN files
        THEN Failed(FileReadError, files)
        ELSE IF ~decrypted_data.ok THEN Failed(DecryptionError, files)
        ELSE IF ro THEN Failed(FileWriteErrorDec, files)
        ELSE [result |-> Ok,
              fs |-> fs_write(files, path, decrypted_data.bytes),
              out |-> path]

decrypt_file(self, files, ro) ==
    LET key == decode(self.key)
        iv == decode(self.iv)
        cipher == new_from_slices(key.bytes, iv.bytes)
        encrypted_data == files[self.file_path]
        decrypted_data == decrypt_vec(cipher, encrypted_data)
        path == decrypt_output_path(self.file_path)
    IN  IF ~key.ok THEN Failed(InvalidKeyFormat, files)
        ELSE IF ~iv.ok THEN Failed(InvalidIvFormat, files)
        ELSE IF ~cipher.ok THEN Failed(InvalidKeyOrIvLength, files)
        ELSE IF self.file_path \notin DOMAIN files
        THEN Failed(FileReadError, files)
        ELSE IF ~decrypted_data.ok THEN Failed(DecryptionError, files)
        ELSE IF ro THEN Failed(FileWriteErrorDec, files)
        ELSE [result |-> Ok,
              fs |-> fs_write(files, path, decrypted_data.bytes),
              out |-> path]

\* rand::thread_rng().gen() of [u8; 32] and [u8; 16]: the draws of the model
RandomKeyBytes ==
    { [i \in 1..KeySize |-> i], [i \in 1..KeySize |-> (7 * i) % 256] }

RandomIvBytes == { [i \in 1..BlockSize |-> 160 + i] }

generate_random_key(bytes) == encode(bytes)

\* the IV drawn with the size of the key
generate_random_iv_key_sized(bytes) == encode(bytes \o bytes)

generate_random_iv(bytes) == encode(bytes)

----------------------------------------------------------------------------
(* The inputs: what the user types, the files present at start.            *)

ReportPdf == <<"r", "e", "p", "o", "r", "t", ".", "p", "d", "f">>

Archive == <<"a", "r", "c", "h", "i", "v", "e">>

Notes == <<"n", "o", "t", "e", "s">>

Missing == <<"n", "o", "f", "i", "l", "e", ".", "e", "n", "c">>

Broken == <<"x", ".", "b", "i", "n", ".", "e", "n", "c">>

Key1 == encode([i \in 1..KeySize |-> i])

Iv1 == encode([i \in 1..BlockSize |-> 160 + i])

Cipher1 == new_from_slices(decode(Key1).bytes, decode(Iv1).bytes)

\* a non-hex key of the right length, hex keys of 62, 63 and 66 characters,
\* and a valid key
TypedKeys ==
    { <<>>, Key1, Rep("z", 2 * KeySize), Rep("A", 2 * KeySize - 2),
      Rep("b", 2 * KeySize - 1), Rep("c", 2 * KeySize + 2) }

TypedIvs ==
    { <<>>, Iv1, Rep("g", 2 * BlockSize), Rep("0", 2 * BlockSize - 2),
      Rep("1", 2 * BlockSize - 1) }

Hello == <<104, 101, 108, 108, 111>>

Pattern(n) == [i \in 1..n |-> (3 * i) % 256]

Plaintexts ==
    { Pattern(n) : n \in {0, BlockSize - 1, BlockSize, MaxDataLen} }
        \cup {Hello}

\* files that are no output of encrypt_file: empty, truncated, a block whose
\* padding is wrong, and two blocks ending in a padding longer than a block
BadCiphertexts ==
    { <<>>,
      Hello,
      encrypt_blocks(Cipher1.key, Cipher1.iv,
                     Pattern(BlockSize - 2) \o <<2, 3>>, 1),
      encrypt_blocks(Cipher1.key, Cipher1.iv,
                     Pattern(BlockSize - 1)
                         \o Rep(BlockSize + 1, BlockSize + 1), 1) }

OneFile(path, bytes) == [p \in {path} |-> bytes]

InitialFileSystems ==
    { OneFile(ReportPdf, d) : d \in Plaintexts }
        \cup { OneFile(Archive, Hello) }
        \cup { OneFile(Notes, encrypt_vec(Cipher1, Hello)) }
        \cup { OneFile(Broken, c) : c \in BadCiphertexts }

\* A session: the files present at start, whether the directory is
\* read-only, what the user has at hand to type (among the paths, the name
\* of the encrypted copy of a file), and what the random generator can draw.
ValidationSession(ro) ==
    [files |-> OneFile(ReportPdf, Hello), read_only |-> ro,
     paths |-> {<<>>, Missing}, keys |-> TypedKeys, ivs |-> TypedIvs,
     random_keys |-> { decode(Key1).bytes }]

FileSession(files) ==
    [files |-> files, read_only |-> FALSE,
     paths |-> {<<>>} \cup { p \o DotEnc : p \in DOMAIN files },
     keys |-> {<<>>, Key1}, ivs |-> {<<>>, Iv1},
     random_keys |-> { decode(Key1).bytes }]

TwoKeySession ==
    [files |-> OneFile(ReportPdf, Hello), read_only |-> FALSE,
     paths |-> {<<>>, ReportPdf \o DotEnc}, keys |-> {<<>>},
     ivs |-> {<<>>}, random_keys |-> RandomKeyBytes]

Sessions ==
    { ValidationSession(ro) : ro \in BOOLEAN }
        \cup { FileSession(f) : f \in InitialFileSystems }
        \cup { TwoKeySession }

----------------------------------------------------------------------------
(* The application.                                                        *)

VARIABLES
    session,         \* the inputs available to the user (never changes)
    file_path,       \* FileEncryptionTool.file_path
    key,             \* FileEncryptionTool.key
    iv,              \* FileEncryptionTool.iv
    status_message,  \* FileEncryptionTool.status_message
    dark_mode,       \* FileEncryptionTool.dark_mode
    fs,              \* the files on disk
    read_only,       \* whether the directory refuses writes
    last,            \* the core call made by the message just handled
    key_generated,   \* key is the value GenerateKey put there
    iv_generated     \* iv is the value GenerateIv put there

vars == <<session, dark_mode, file_path, key, iv, status_message, fs,
          read_only, last, key_generated, iv_generated>>

Self == [file_path |-> file_path, key |-> key, iv |-> iv]

NoCall ==
    [op |-> "none", result |-> Ok, self |-> Self, out |-> <<>>, pre |-> fs]

Called(op, r) ==
    [op |-> op, result |-> r.result, self |-> Self, out |-> r.out, pre |-> fs]

\* a message that reaches neither core operation
Skipped(op) ==
    [op |-> op, result |-> NotCalled, self |-> Self, out |-> <<>>,
     pre |-> fs]

Init ==
    /\ file_path = <<>>
    /\ key = <<>>
    /\ iv = <<>>
    /\ status_message = "Ready"
    /\ dark_mode = TRUE
    /\ session \in Sessions
    /\ fs = session.files
    /\ read_only = session.read_only
    /\ last = [op |-> "none", result |-> Ok,
               self |-> [file_path |-> <<>>, key |-> <<>>, iv |-> <<>>],
               out |-> <<>>, pre |-> fs]
    /\ key_generated = FALSE
    /\ iv_generated = FALSE

ToggleTheme ==
    /\ dark_mode' = ~dark_mode
    /\ last' = NoCall
    /\ UNCHANGED <<session, file_path, key, iv, status_message, fs,
                   read_only, key_generated, iv_generated>>

FilePathChanged ==
    \E new_path \in session.paths :
        /\ file_path' = new_path
        /\ last' = [NoCall EXCEPT !.self.file_path = new_path]
        /\ UNCHANGED <<session, dark_mode, key, iv, status_message, fs,
                       read_only, key_generated, iv_generated>>

KeyChanged ==
    \E new_key \in session.keys :
        /\ key' = new_key
        /\ key_generated' = FALSE
        /\ last' = [NoCall EXCEPT !.self.key = new_key]
        /\ UNCHANGED <<session, dark_mode, file_path, iv, status_message, fs,
                       read_only, iv_generated>>

IvChanged ==
    \E new_iv \in session.ivs :
        /\ iv' = new_iv
        /\ iv_generated' = FALSE
        /\ last' = [NoCall EXCEPT !.self.iv = new_iv]
        /\ UNCHANGED <<session, dark_mode, file_path, key, status_message,
                       fs, read_only, key_generated>>

\* the guard with "and" for "or": only an entirely empty form is refused
fields_missing_all(self) ==
    self.file_path = <<>> /\ self.key = <<>> /\ self.iv = <<>>

\* main.rs 91 and 102: a field is still empty
fields_missing(self) ==
    self.file_path = <<>> \/ self.key = <<>> \/ self.iv = <<>>

EncryptFile ==
    /\ IF fields_missing(Self)
       THEN /\ status_message' =
                   "Please enter all fields (file path, key, and IV)."
            /\ last' = Skipped("encrypt")
            /\ fs' = fs
       ELSE LET r == encrypt_file(Self, fs, read_only)
            IN  /\ status_message' =
                       IF r.result # Ok
                       THEN <<"Encryption failed: ", r.result>>
                       ELSE "File successfully encrypted."
                /\ last' = Called("encrypt", r)
                /\ fs' = r.fs
    /\ UNCHANGED <<session, dark_mode, file_path, key, iv, read_only,
                   key_generated, iv_generated>>

DecryptFile ==
    /\ IF fields_missing(Self)
       THEN /\ status_message' = FillAllFieldsDecrypt
            /\ last' = Skipped("decrypt")
            /\ fs' = fs
       ELSE LET r == decrypt_file(Self, fs, read_only)
            IN  /\ status_message' =
                       IF r.result # Ok
                       THEN <<"Decryption failed: ", r.result>>
                       ELSE "File successfully decrypted."
                /\ last' = Called("decrypt", r)
                /\ fs' = r.fs
    /\ UNCHANGED <<session, dark_mode, file_path, key, iv, read_only,
                   key_generated, iv_generated>>

\* the dialog returns an existing file, or nothing when it is cancelled
SelectFilePicked ==
    \E path \in DOMAIN fs :
        /\ Len(path) <= MaxPathLen
        /\ file_path' = path
        /\ status_message' =
               <<"File selected: ", truncate_middle(path, TruncateLen)>>
        /\ last' = [NoCall EXCEPT !.self.file_path = path]
        /\ UNCHANGED <<session, dark_mode, key, iv, fs, read_only,
                       key_generated, iv_generated>>

SelectFileCancelled ==
    /\ status_message' = "No file selected."
    /\ last' = NoCall
    /\ UNCHANGED <<session, dark_mode, file_path, key, iv, fs, read_only,
                   key_generated, iv_generated>>

GenerateKey ==
    \E bytes \in session.random_keys :
        /\ key' = generate_random_key(bytes)
        /\ key_generated' = TRUE
        /\ status_message' = "Key generated. Make sure to save it somewhere!"
        /\ last' = [NoCall EXCEPT !.self.key = key']
        /\ UNCHANGED <<session, dark_mode, file_path, iv, fs, read_only,
                       iv_generated>>

GenerateIv ==
    \E bytes \in RandomIvBytes :
        /\ iv' = generate_random_iv(bytes)
        /\ iv_generated' = TRUE
        /\ status_message' = "IV generated. Make sure to save it somewhere!"
        /\ last' = [NoCall EXCEPT !.self.iv = iv']
        /\ UNCHANGED <<session, dark_mode, file_path, key, fs, read_only,
                       key_generated>>

\* the clipboard write is a Command handed to the runtime
CopyKeyToClipboard ==
    /\ status_message' =
           IF key = <<>>
           THEN "Key field is empty, nothing to copy."
           ELSE "Key has been copied."
    /\ last' = NoCall
    /\ UNCHANGED <<session, dark_mode, file_path, key, iv, fs, read_only,
                   key_generated, iv_generated>>

CopyIvToClipboard ==
    /\ status_message' =
           IF iv = <<>>
           THEN "IV field is empty, nothing to copy."
           ELSE "IV has been copied."
    /\ last' = NoCall
    /\ UNCHANGED <<session, dark_mode, file_path, key, iv, fs, read_only,
                   key_generated, iv_generated>>

Next ==
    \/ ToggleTheme
    \/ FilePathChanged
    \/ KeyChanged
    \/ IvChanged
    \/ EncryptFile
    \/ DecryptFile
    \/ SelectFilePicked
    \/ SelectFileCancelled
    \/ GenerateKey
    \/ GenerateIv
    \/ CopyKeyToClipboard
    \/ CopyIvToClipboard

Spec == Init /\ [][Next]_vars

----------------------------------------------------------------------------
(* Vocabulary of the properties.                                           *)

HexDigits ==
    { "0", "1", "2", "3", "4", "5", "6", "7", "8", "9",
      "a", "b", "c", "d", "e", "f", "A", "B", "C", "D", "E", "F" }

LowerHexDigits ==
    { "0", "1", "2", "3", "4", "5", "6", "7", "8", "9",
      "a", "b", "c", "d", "e", "f" }

\* the string consists only of hexadecimal characters
OnlyHex(s) == \A i \in 1..Len(s) : s[i] \in HexDigits

\* the string is the hexadecimal writing of n bytes
HexOfBytes(s, n) == OnlyHex(s) /\ Len(s) = 2 * n

ValidKeyAndIv(self) ==
    HexOfBytes(self.key, KeySize) /\ HexOfBytes(self.iv, BlockSize)

\* the message just handled reached encrypt_file / decrypt_file
EncryptCalled == last.op = "encrypt" /\ last.result # NotCalled

DecryptCalled == last.op = "decrypt" /\ last.result # NotCalled

CoreCalled == EncryptCalled \/ DecryptCalled

EncryptOk == last.op = "encrypt" /\ last.result = Ok

DecryptOk == last.op = "decrypt" /\ last.result = Ok

WithoutDotEnc(path) == SubSeq(path, 1, Len(path) - Len(DotEnc))

----------------------------------------------------------------------------
(* C1: for every input path, decrypt writes to the path obtained by        *)
(* stripping exactly one trailing ".enc" (if any) and inserting            *)
(* "_decrypted" before the last '.' of the remainder, or at its end when   *)
(* it has none; without a trailing ".enc", "_decrypted" is appended.       *)

OneLayerOutputPath(path) ==
    IF ends_with(path, DotEnc)
    THEN LET remainder == WithoutDotEnc(path)
             pos == rfind(remainder, ".")
         IN  IF pos >= 0
             THEN SubSeq(remainder, 1, pos) \o UDecrypted
                      \o SubSeq(remainder, pos + 1, Len(remainder))
             ELSE remainder \o UDecrypted
    ELSE path \o UDecrypted

\* C1: a successful decrypt wrote to the one-layer output path of its input
C1_DecryptWritesOneLayerPath ==
    DecryptOk =>
        /\ last.out = OneLayerOutputPath(last.self.file_path)
        /\ last.out \in DOMAIN fs

----------------------------------------------------------------------------
(* C2: round trip.  When the file decrypt reads is what encrypt writes for *)
(* the file p under the same valid key and IV, decrypt succeeds and the    *)
(* bytes it writes are the bytes of p.                                     *)

\* the input of the decrypt just made is p + ".enc" and holds what
\* encrypt_file makes of p with the same key and IV
DecryptOfEncrypted ==
    /\ DecryptCalled
    /\ ValidKeyAndIv(last.self)
    /\ ends_with(last.self.file_path, DotEnc)
    /\ LET p == WithoutDotEnc(last.self.file_path)
           e == encrypt_file([last.self EXCEPT !.file_path = p], last.pre,
                             read_only)
       IN  /\ p \in DOMAIN last.pre
           /\ last.self.file_path \in DOMAIN last.pre
           /\ e.result = Ok
           /\ e.fs[last.self.file_path] = last.pre[last.self.file_path]

\* C2: decrypting what encrypt wrote for p, with the same key and IV,
\* succeeds and writes the bytes of p
C2_RoundTrip ==
    DecryptOfEncrypted =>
        /\ last.result = Ok
        /\ fs[last.out] = last.pre[WithoutDotEnc(last.self.file_path)]

\* a round trip of the empty file
C2_Witness ==
    /\ DecryptOfEncrypted
    /\ last.result = Ok
    /\ last.pre[WithoutDotEnc(last.self.file_path)] = <<>>
    /\ fs[last.out] = <<>>

----------------------------------------------------------------------------
(* C3: a successful encrypt of a file of L bytes writes L + (16 - L mod    *)
(* 16) bytes when L mod 16 # 0 and L + 16 bytes otherwise: a non-zero      *)
(* multiple of 16, greater than L.                                         *)

PaddedLength(L) ==
    IF L % 16 # 0 THEN L + (16 - (L % 16)) ELSE L + 16

\* C3: the file a successful encrypt wrote has the padded length of its
\* source
C3_CiphertextLength ==
    EncryptOk =>
        LET L == Len(last.pre[last.self.file_path])
            C == Len(fs[last.out])
        IN  /\ C = PaddedLength(L)
            /\ C % 16 = 0
            /\ C > 0
            /\ C > L

\* the 5-byte file yields 16 bytes
C3_Witness ==
    /\ EncryptOk
    /\ last.pre[last.self.file_path] = Hello
    /\ Len(fs[last.out]) = 16

----------------------------------------------------------------------------
(* C4: for encrypt and for decrypt, a key of hexadecimal characters only   *)
(* whose length is not 64, the IV being 32 hexadecimal characters, fails   *)
(* with "Invalid key/IV length"; likewise an IV of hexadecimal characters  *)
(* only whose length is not 32, the key being 64 hexadecimal characters.   *)

KeyOfWrongLength(self) ==
    /\ OnlyHex(self.key)
    /\ Len(self.key) # 2 * KeySize
    /\ HexOfBytes(self.iv, BlockSize)

IvOfWrongLength(self) ==
    /\ OnlyHex(self.iv)
    /\ Len(self.iv) # 2 * BlockSize
    /\ HexOfBytes(self.key, KeySize)

\* C4 as stated: a hex key or IV of any wrong length is a length error
C4_AnyWrongLengthIsLengthError ==
    (CoreCalled /\ (KeyOfWrongLength(last.self) \/ IvOfWrongLength(last.self)))
        => last.result = InvalidKeyOrIvLength

\* C4 as amended: a wrong even length is a length error, an odd length is a
\* format error of the key, respectively of the IV
C4_WrongLength ==
    /\ (CoreCalled /\ KeyOfWrongLength(last.self)) =>
           last.result = IF Len(last.self.key) % 2 = 0
                         THEN InvalidKeyOrIvLength
                         ELSE InvalidKeyFormat
    /\ (CoreCalled /\ IvOfWrongLength(last.self)) =>
           last.result = IF Len(last.self.iv) % 2 = 0
                         THEN InvalidKeyOrIvLength
                         ELSE InvalidIvFormat

\* decrypt with a hex key of 62 characters
C4_Witness ==
    /\ DecryptCalled
    /\ KeyOfWrongLength(last.self)
    /\ Len(last.self.key) = 2 * KeySize - 2
    /\ last.result = InvalidKeyOrIvLength

----------------------------------------------------------------------------
(* C5: a successful encrypt of path p writes exactly one file, p + ".enc"  *)
(* (also when p ends in ".enc"), leaves the source p as it was and no      *)
(* other path is created, modified or deleted.                             *)

\* C5: a successful encrypt wrote p + ".enc" and changed no other file
C5_EncryptFrame ==
    EncryptOk =>
        /\ last.out = last.self.file_path \o DotEnc
        /\ DOMAIN fs = (DOMAIN last.pre) \cup {last.out}
        /\ \A p \in (DOMAIN last.pre) \ {last.out} : fs[p] = last.pre[p]
        /\ fs[last.self.file_path] = last.pre[last.self.file_path]

\* the source already ends in ".enc" and a new file appeared
C5_Witness ==
    /\ EncryptOk
    /\ ends_with(last.self.file_path, DotEnc)
    /\ last.out = last.self.file_path \o DotEnc
    /\ last.out \notin DOMAIN last.pre
    /\ last.out \in DOMAIN fs

----------------------------------------------------------------------------
(* C6: with a valid key and IV and a readable file, decrypt fails with     *)
(* "Failed to decrypt file" whenever the file is empty, its length is no   *)
(* multiple of 16, or the PKCS#7 padding of the decrypted last block is    *)
(* malformed; no file is written then.                                     *)

\* the CBC decryption of the file, padding included
DecryptedBuffer(self, files) ==
    decrypt_blocks(decode(self.key).bytes, decode(self.iv).bytes,
                   files[self.file_path], 1)

\* PKCS#7 for 16-byte blocks: the last byte n is in 1..16 and the last n
\* bytes all are n
PaddingMalformed(plain) ==
    LET l == Len(plain)
        n == plain[l]
    IN  \/ n = 0
        \/ n > BlockSize
        \/ \E i \in (l - n + 1)..(l - 1) : plain[i] # n

BadCiphertext(self, files) ==
    LET data == files[self.file_path]
    IN  \/ Len(data) = 0
        \/ Len(data) % BlockSize # 0
        \/ PaddingMalformed(DecryptedBuffer(self, files))

\* C6: a decrypt of an empty, truncated or badly padded file fails with
\* "Failed to decrypt file" and writes nothing
C6_BadCiphertextRejected ==
    ( /\ DecryptCalled
      /\ ValidKeyAndIv(last.self)
      /\ last.self.file_path \in DOMAIN last.pre
      /\ BadCiphertext(last.self, last.pre) )
        => /\ last.result = DecryptionError
           /\ fs = last.pre

----------------------------------------------------------------------------
(* C7: an EncryptFile or DecryptFile message received while the path, the  *)
(* key or the IV is empty does not reach the core: no file changes, the    *)
(* three fields stay as they were and the status is the fill-all-fields    *)
(* message of the operation.                                               *)

SomeFieldEmpty(self) ==
    self.file_path = <<>> \/ self.key = <<>> \/ self.iv = <<>>

\* C7: with an empty field the message ends in the fill-all-fields status
\* and nothing else changes
C7_EmptyFieldSkipsCore ==
    (last.op \in {"encrypt", "decrypt"} /\ SomeFieldEmpty(last.self)) =>
        /\ last.result = NotCalled
        /\ fs = last.pre
        /\ Self = last.self
        /\ status_message = IF last.op = "encrypt"
                            THEN FillAllFieldsEncrypt
                            ELSE FillAllFieldsDecrypt

\* only the key is missing, the file is there
C7_Witness ==
    /\ last.op = "encrypt"
    /\ last.self.key = <<>>
    /\ last.self.iv # <<>>
    /\ last.self.file_path \in DOMAIN fs
    /\ status_message = FillAllFieldsEncrypt

----------------------------------------------------------------------------
(* C8: a generated key is 64 lowercase hex characters, a generated IV 32;  *)
(* with both fields as GenerateKey and GenerateIv left them, EncryptFile   *)
(* and DecryptFile never end in a key format, IV format or length error.   *)

LowerHex(s, n) ==
    /\ Len(s) = n
    /\ \A i \in 1..n : s[i] \in LowerHexDigits

\* C8: generated values have the right length and alphabet and pass the
\* key and IV checks of both operations
C8_GeneratedKeyAndIvAreValid ==
    /\ key_generated => LowerHex(key, 64)
    /\ iv_generated => LowerHex(iv, 32)
    /\ (key_generated /\ iv_generated /\ last.op \in {"encrypt", "decrypt"}
            /\ file_path # <<>>) =>
           /\ last.result # NotCalled
           /\ last.result \notin
                  {InvalidKeyFormat, InvalidIvFormat, InvalidKeyOrIvLength}

\* an encryption with a generated key and a generated IV
C8_Witness ==
    /\ key_generated
    /\ iv_generated
    /\ EncryptOk

----------------------------------------------------------------------------
(* C9: the error reported is that of the first failing step in the order   *)
(* key decoding, IV decoding, key/IV length, file read, (decrypt) padding, *)
(* file write.                                                             *)

\* hex::decode accepts the string: hex characters, two per byte
Decodes(s) == OnlyHex(s) /\ Len(s) % 2 = 0

FileExists == last.self.file_path \in DOMAIN last.pre

\* C9: each error is reported exactly when the steps before it passed and
\* its own step failed
C9_FirstFailingStep ==
    CoreCalled =>
        /\ ~Decodes(last.self.key) => last.result = InvalidKeyFormat
        /\ (Decodes(last.self.key) /\ ~Decodes(last.self.iv)) =>
               last.result = InvalidIvFormat
        /\ (Decodes(last.self.key) /\ Decodes(last.self.iv)
                /\ ~ValidKeyAndIv(last.self)) =>
               last.result = InvalidKeyOrIvLength
        /\ (ValidKeyAndIv(last.self) /\ ~FileExists) =>
               last.result = FileReadError
        /\ last.result = FileReadError =>
               (ValidKeyAndIv(last.self) /\ ~FileExists)
        /\ last.result = DecryptionError =>
               (last.op = "decrypt" /\ ValidKeyAndIv(last.self) /\ FileExists)
        /\ (last.op = "decrypt" /\ ValidKeyAndIv(last.self) /\ FileExists
                /\ Len(last.pre[last.self.file_path]) % BlockSize # 0) =>
               last.result = DecryptionError
        /\ last.result \in {FileWriteErrorEnc, FileWriteErrorDec} =>
               (ValidKeyAndIv(last.self) /\ FileExists /\ read_only)
        /\ last.result # Ok => fs = last.pre

\* a file that does not exist and a key of the wrong length
C9_Witness ==
    /\ EncryptCalled
    /\ ~FileExists
    /\ Decodes(last.self.key)
    /\ Len(last.self.key) # 2 * KeySize
    /\ last.result = InvalidKeyOrIvLength

----------------------------------------------------------------------------
(* C10: the path decrypt writes to is never the path it reads, and for the *)
(* file p + ".enc" never p; a decrypt leaves the file it read and the      *)
(* files present at start as they were.                                    *)

\* C10: decrypt writes neither to its input nor to the file its input was
\* encrypted from, and leaves the files present at start alone
C10_DecryptOverwritesNoSource ==
    /\ file_path # <<>> =>
           /\ decrypt_output_path(file_path) # file_path
           /\ decrypt_output_path(file_path \o DotEnc) # file_path
    /\ DecryptOk =>
           /\ last.out # last.self.file_path
           /\ fs[last.self.file_path] = last.pre[last.self.file_path]
           /\ \A p \in DOMAIN session.files : fs[p] = last.pre[p]
           /\ \A p \in DOMAIN last.pre :
                  last.self.file_path = p \o DotEnc => fs[p] = last.pre[p]

\* the encrypted copy of a file present at start was decrypted
C10_Witness ==
    /\ DecryptOk
    /\ ends_with(last.self.file_path, DotEnc)
    /\ WithoutDotEnc(last.self.file_path) \in DOMAIN session.files
    /\ last.out \in DOMAIN fs
    /\ fs[WithoutDotEnc(last.self.file_path)]
           = session.files[WithoutDotEnc(last.self.file_path)]

====
